---- MODULE Spec2Model ----
(***************************************************************************)
(* WAHA WhatsApp router (src/main.py): session creation, contact-to-       *)
(* container resolution, message sending and the inbound webhook, run by   *)
(* concurrent request handlers over one shared database.                   *)
(*                                                                         *)
(* Strings the code inspects character by character (contact identifiers,  *)
(* phone numbers, routing-table keys) are tuples of one-character strings. *)
(* A handler runs atomically between two awaits of a remote call, which    *)
(* are the only points where the event loop switches to another request.   *)
(***************************************************************************)
EXTENDS Integers, Sequences, FiniteSets, Bags, TLC

\* ------------------------------------------------------------------ bounds
\* Number of request handlers that can be in flight together.
NumWorkers == 2
\* Number of requests served in one behaviour.
MaxRequests == 2
\* rows of a waha_nodes table handed to pick_node
MaxNodes == 3
\* largest active_sessions and max_sessions of such a row
MaxLoad == 2

\* Python's None as the result of a query without rows
None == [none |-> TRUE]
\* Python's None where the code expects a string (a null or missing JSON field)
NoneStr == <<"None">>

\* ----------------------------------------------------------------- strings
At == "@"
Digits == {"0", "1", "2", "3", "4", "5", "6", "7", "8", "9"}
\* U+00B2 SUPERSCRIPT TWO, one character: str.isdigit() accepts it, int() does not.
Sup2 == "sup2"

\* str.isdigit() of one character
IsDigit(c) == c \in Digits \cup {Sup2}

\* int() accepts the character
IntOk(c) == c \in Digits

\* int() of one decimal character
IntOfChar(c) ==
  CASE c = "0" -> 0 [] c = "1" -> 1 [] c = "2" -> 2 [] c = "3" -> 3 [] c = "4" -> 4
    [] c = "5" -> 5 [] c = "6" -> 6 [] c = "7" -> 7 [] c = "8" -> 8 [] c = "9" -> 9

\* "@" in s
HasAt(s) == \E i \in 1..Len(s) : s[i] = At

\* s.split("@")[0]
SplitAt0(s) ==
  IF HasAt(s)
    THEN LET k == CHOOSE i \in 1..Len(s) : s[i] = At /\ \A j \in 1..(i - 1) : s[j] # At
         IN  SubSeq(s, 1, k - 1)
    ELSE s

\* sub in s
Contains(s, sub) ==
  \E i \in 0..(Len(s) - Len(sub)) : SubSeq(s, i + 1, i + Len(sub)) = sub

LidSuffix == <<"@", "l", "i", "d">>
CusSuffix == <<"@", "c", ".", "u", "s">>

\* int(container_str) of a routing-table key made of decimal characters
RECURSIVE IntOfStr(_)
IntOfStr(s) ==
  IF Len(s) = 0 THEN 0
  ELSE 10 * IntOfStr(SubSeq(s, 1, Len(s) - 1)) + IntOfChar(s[Len(s)])

\* ------------------------------------------------------------ request inputs
PhoneLid == <<"9", "9", "8", "8", "7", "7", "6", "6", "5", "5", "4", "4">>
LidExample == PhoneLid \o LidSuffix
PhoneResolved == <<"9", "2", "3", "0", "0", "9", "9", "9", "8", "8", "8", "8">>
PhoneCus == <<"9", "2", "3", "0", "0", "1", "2", "3", "4", "5", "6", "7">>
CusExample == PhoneCus \o CusSuffix
BareContact == <<"b", "o", "b">>
Sup2Contact == <<"1", "2", Sup2>> \o CusSuffix

\* recipient_chat_id of /send, payload.from of the webhook
Contacts == {LidExample, CusExample, BareContact, Sup2Contact}

\* session names
SessionLabels == {"default", "s1"}

\* contact_container_mapping.json as load_container_mapping returns it: the
\* items of the dict in file order; the empty one also stands for a missing
\* or malformed file.
Entry(k, ps) == [key |-> k, phones |-> ps]

MappingChoices ==
  { << >>,
    << Entry(<<"1">>, {PhoneCus}) >>,
    << Entry(<<"2">>, {PhoneCus, PhoneResolved}), Entry(<<"1">>, {PhoneCus, PhoneResolved}) >>,
    << Entry(<<"3">>, {PhoneCus}), Entry(<<"1">>, {PhoneResolved}) >> }

\* str(n) for the small non-negative integers the code formats
StrOfInt(n) ==
  CASE n = 0 -> <<"0">> [] n = 1 -> <<"1">> [] n = 2 -> <<"2">> [] n = 3 -> <<"3">>
    [] n = 4 -> <<"4">> [] n = 5 -> <<"5">> [] n = 6 -> <<"6">> [] n = 7 -> <<"7">>
    [] n = 8 -> <<"8">> [] n = 9 -> <<"9">>

\* ------------------------------------------------------------------- state
VARIABLES
  waha_nodes,          \* table waha_nodes, in id order
  wa_sessions,         \* table wa_sessions, in id order
  contact_containers,  \* table contact_containers, in id order (committed rows)
  json_mapping,        \* content of contact_container_mapping.json
  req,                 \* the requests being handled (a bag): for each its fields,
                       \* the locals of its handler and the handler's position
  served,              \* number of requests accepted so far
  remote_sessions,     \* the session names created on the WAHA nodes: those
                       \* for which a POST /api/sessions call succeeded
  picked               \* whether pick_node was called, and what it returned

vars == <<waha_nodes, wa_sessions, contact_containers, json_mapping, req, served,
          remote_sessions, picked>>

WahaCore == <<"w", "a", "h", "a", "_", "c", "o", "r", "e", "_">>
UrlPrefix == <<"h", "t", "t", "p", ":", "/", "/">>
UrlPort == <<":", "3", "0", "0", "0">>

\* WahaNode rows written by init_nodes
InitNodes ==
  << [id |-> 1, url |-> UrlPrefix \o WahaCore \o <<"1">> \o UrlPort,
      max_sessions |-> 200, active_sessions |-> 0],
     [id |-> 2, url |-> UrlPrefix \o WahaCore \o <<"2">> \o UrlPort,
      max_sessions |-> 200, active_sessions |-> 0] >>

\* WaSession(phone=phone, session_name=phone, node_id=node.id)
WaSession(phone, node_id) == [phone |-> phone, session_name |-> phone, node_id |-> node_id]

\* ContactContainer(contact_id=..., phone_number=..., container_number=..., node_id=...)
ContactContainer(contact_id, phone_number, container_number, node_id) ==
  [contact_id |-> contact_id, phone_number |-> phone_number,
   container_number |-> container_number, node_id |-> node_id]

\* -------------------------------------------------------------- db queries
\* query(...).first(): the first row or None
First(rows) == IF Len(rows) = 0 THEN None ELSE rows[1]

\* db.query(WahaNode).get(node_id)
NodeById(node_id) ==
  LET Is(n) == n.id = node_id IN First(SelectSeq(waha_nodes, Is))

\* db.query(WahaNode).filter(WahaNode.url.like(f"%waha_core_{container_number}%")).first()
NodeForContainer(container_number) ==
  LET Like(n) == Contains(n.url, WahaCore \o StrOfInt(container_number))
  IN  First(SelectSeq(waha_nodes, Like))

\* db.query(WahaNode).order_by(WahaNode.active_sessions).first()
LeastLoadedNode ==
  IF Len(waha_nodes) = 0 THEN None
  ELSE LET k == CHOOSE i \in 1..Len(waha_nodes) :
                  \A j \in 1..Len(waha_nodes) :
                    \/ waha_nodes[i].active_sessions < waha_nodes[j].active_sessions
                    \/ (waha_nodes[i].active_sessions = waha_nodes[j].active_sessions /\ i <= j)
       IN  waha_nodes[k]

\* the query filtering on the wrong column, filter_by(phone_number=contact_id)
RowsOfContact_WrongColumn(cc, contact_id) ==
  LET Is(m) == m.phone_number = contact_id IN SelectSeq(cc, Is)

\* db.query(ContactContainer).filter_by(contact_id=contact_id).all()
RowsOfContact(cc, contact_id) ==
  LET Is(m) == m.contact_id = contact_id IN SelectSeq(cc, Is)

\* db.query(ContactContainer).filter_by(contact_id=..., container_number=...).first()
RowOfPair(cc, contact_id, container_number) ==
  LET Is(m) == m.contact_id = contact_id /\ m.container_number = container_number
  IN  First(SelectSeq(cc, Is))

\* db.query(WaSession).filter_by(phone=phone).first()
SessionByPhone(phone) ==
  LET Is(s) == s.phone = phone IN First(SelectSeq(wa_sessions, Is))

\* ------------------------------------------------------- pure helper code
\* a WAHA answer to GET /api/{session}/lids/{lid}: an HTTP status with the
\* "pn" field of the body, or no answer within the timeout
LidResponses ==
  { [status |-> "200", pn |-> PhoneResolved \o CusSuffix],
    [status |-> "200", pn |-> << >>],
    [status |-> "404", pn |-> << >>],
    [status |-> "timeout", pn |-> << >>] }

\* the lookup answered with a usable phone number
LidResolved(resp) == resp.status = "200" /\ HasAt(resp.pn) /\ Len(SplitAt0(resp.pn)) > 0

resolve_lid_to_phone_via_waha(contact_id, resp) ==
  IF ~Contains(contact_id, LidSuffix)
    THEN SplitAt0(contact_id)
    ELSE IF resp.status = "200" /\ HasAt(resp.pn) /\ Len(SplitAt0(resp.pn)) > 0
           THEN SplitAt0(resp.pn)
           ELSE SplitAt0(contact_id)

get_phone_from_contact(contact_id, cc) ==
  LET phone_or_lid == SplitAt0(contact_id)
      existing == First(RowsOfContact(cc, contact_id))
  IN  IF existing # None /\ Len(existing.phone_number) > 0
        THEN existing.phone_number
        ELSE phone_or_lid

\* the match that stops at the first container listing phone_number
RECURSIVE MatchContainers_FirstOnly(_, _, _)
MatchContainers_FirstOnly(mapping, phone_number, container_numbers) ==
  IF Len(mapping) = 0 THEN container_numbers
  ELSE IF phone_number \in Head(mapping).phones
    THEN Append(container_numbers, IntOfStr(Head(mapping).key))
  ELSE MatchContainers_FirstOnly(Tail(mapping), phone_number, container_numbers)

\* lines 186-194: the containers of the routing table that list phone_number,
\* in the order of the table, each once
RECURSIVE MatchContainers(_, _, _)
MatchContainers(mapping, phone_number, container_numbers) ==
  IF Len(mapping) = 0 THEN container_numbers
  ELSE LET e == Head(mapping)
           container_num == IntOfStr(e.key)
           found == /\ phone_number \in e.phones
                    /\ \A i \in 1..Len(container_numbers) : container_numbers[i] # container_num
       IN  MatchContainers(Tail(mapping), phone_number,
                           IF found THEN Append(container_numbers, container_num)
                                    ELSE container_numbers)

\* line 200: int(phone[-1]) raises ValueError (isdigit() holds, int() refuses)
DefaultRaises(contact_id) ==
  LET phone == SplitAt0(contact_id)
  IN  Len(phone) > 0 /\ IsDigit(phone[Len(phone)]) /\ ~IntOk(phone[Len(phone)])

\* the default rule with its comparison inverted
DefaultContainer_Inverted(contact_id) ==
  LET phone == SplitAt0(contact_id)
      last_digit == IF Len(phone) > 0 /\ IsDigit(phone[Len(phone)])
                      THEN IntOfChar(phone[Len(phone)])
                      ELSE 0
  IN  IF last_digit < 5 THEN 2 ELSE 1

\* lines 199-201: the default container from the last character
DefaultContainer(contact_id) ==
  LET phone == SplitAt0(contact_id)
      last_digit == IF Len(phone) > 0 /\ IsDigit(phone[Len(phone)])
                      THEN IntOfChar(phone[Len(phone)])
                      ELSE 0
  IN  IF last_digit < 5 THEN 1 ELSE 2

\* ------------------------------------------------------ a request handler
\* One record per request being handled: the request (op and its fields), the
\* position pc of its handler (the await it is suspended at; "done" when its
\* response is ready, which is returned before anything else happens),
\* the locals of get_container_for_contact and of the webhook, the response,
\* and a log of what the request did: res_log has one entry per call of
\* get_container_for_contact, sends one entry per sendText call, seen_calls
\* counts the sendSeen calls and seen is the outcome of the sendSeen call that
\* was answered last, kept until the handler resumes from its next await.  Of a
\* create_session request the log keeps the number of wa_sessions rows it
\* counted (total_at_start), the outcome of its POST /api/sessions call
\* (remote), and the wa_sessions table and the active_sessions count of its
\* node as they were when that call was answered.
IdleReq ==
  [ pc |-> "idle", op |-> "none",
    contact |-> NoneStr, session |-> "None", event |-> "None", text |-> "None",
    caller |-> "None",
    phone_number |-> NoneStr, container_numbers |-> << >>, idx |-> 0,
    containers |-> << >>, pending |-> << >>, node_id |-> 0,
    retval |-> 0, route_container |-> 0,
    echo_list |-> << >>,
    response |-> "None", err |-> "None",
    res_log |-> << >>, sends |-> << >>, seen_calls |-> 0, seen |-> "None",
    create_calls |-> 0,
    existed |-> FALSE, sessions_added |-> 0,
    total_at_start |-> 0, remote |-> "None",
    sessions_before |-> << >>, active_before |-> 0 ]

\* the container numbers of the committed rows of a contact
StoredContainers(cc, contact_id) ==
  {cc[i].container_number : i \in {j \in 1..Len(cc) : cc[j].contact_id = contact_id}}

\* The log entry of a call of get_container_for_contact that starts now:
\* start and start_phone are the containers persisted for the contact, and
\* whether a persisted row carries a phone number, when the call starts;
\* lid_calls counts its resolveLinkedId calls and lid_ok tells of each whether
\* it returned a phone; matched is the routing-table match and fallback tells
\* that the default rule was used and match_phone is the phone number that was
\* looked up in the table; written are the rows it committed; result
\* is the container it returned (0: none yet), end the containers persisted
\* for the contact when it returned, err the exception it raised.
NewResolution(r, cc, caller) ==
  [ caller |-> caller,
    start |-> StoredContainers(cc, r.contact),
    start_phone |-> \E i \in 1..Len(cc) :
                      cc[i].contact_id = r.contact /\ Len(cc[i].phone_number) > 0,
    lid_calls |-> 0, lid_ok |-> << >>,
    matched |-> << >>, fallback |-> FALSE, match_phone |-> NoneStr,
    written |-> << >>, result |-> 0, end |-> {}, err |-> "None" ]

\* a handler's locals together with the committed contact_containers table
Cfg(r, cc) == [r |-> r, cc |-> cc]

\* return <container> from get_container_for_contact
Return(r, cc, container_number) ==
  Cfg([r EXCEPT !.pc = "ret", !.retval = container_number,
                !.res_log[Len(r.res_log)].result = container_number,
                !.res_log[Len(r.res_log)].end = StoredContainers(cc, r.contact)], cc)

\* an exception leaves get_container_for_contact
Raise(r, cc, e) ==
  Cfg([r EXCEPT !.pc = "raise", !.err = e, !.res_log[Len(r.res_log)].err = e], cc)

\* --------------------------------------------- get_container_for_contact
\* the table without its UniqueConstraint: every flush is accepted
UniqueViolation_Unenforced(cc, pending) == FALSE

\* models.py line 28, UniqueConstraint('contact_id', 'container_number'): the
\* flush of the pending rows is refused when one of them repeats the pair of a
\* committed row or of another pending row
UniqueViolation(cc, pending) ==
  \/ \E i \in 1..Len(pending) :
       RowOfPair(cc, pending[i].contact_id, pending[i].container_number) # None
  \/ \E i, j \in 1..Len(pending) :
       /\ i < j
       /\ pending[i].contact_id = pending[j].contact_id
       /\ pending[i].container_number = pending[j].container_number

\* the commit that replaces the table by the pending rows
Commit_Overwrite(r, cc) ==
  LET r2 == [r EXCEPT !.res_log[Len(r.res_log)].written = r.pending,
                      !.pending = << >>]
  IN  IF Len(r.containers) = 0
        THEN Raise(r2, r.pending, "NoValidContainers")
        ELSE Return(r2, r.pending, r.containers[1])

\* lines 260-267: db.commit() writes the pending rows together or raises
\* IntegrityError and writes none; then the first container is returned
Commit(r, cc) ==
  IF UniqueViolation(cc, r.pending)
    THEN Raise(r, cc, "IntegrityError")
    ELSE LET cc2 == cc \o r.pending
             r2 == [r EXCEPT !.res_log[Len(r.res_log)].written = r.pending,
                             !.pending = << >>]
         IN  IF Len(r.containers) = 0
               THEN Raise(r2, cc2, "NoValidContainers")
               ELSE Return(r2, cc2, r.containers[1])

\* lines 244-258: db.add(contact_mapping); containers.append(...)
AddMapping(r, phone_number, node_id) ==
  LET container_number == r.container_numbers[r.idx]
  IN  [r EXCEPT !.pending = Append(@, ContactContainer(r.contact, phone_number,
                                                       container_number, node_id)),
                !.containers = Append(@, container_number),
                !.phone_number = phone_number,
                !.idx = @ + 1]

\* lines 207-260: the loop over container_numbers from position r.idx, up to
\* the next await (the lookup of line 239) or through the commit
RECURSIVE PersistLoop(_, _)
PersistLoop(r, cc) ==
  IF r.idx > Len(r.container_numbers) THEN Commit(r, cc)
  ELSE LET container_number == r.container_numbers[r.idx]
           node == NodeForContainer(container_number)
       IN  IF container_number \notin {1, 2}
             THEN PersistLoop([r EXCEPT !.idx = @ + 1], cc)
           ELSE IF node = None
             THEN PersistLoop([r EXCEPT !.idx = @ + 1], cc)
           ELSE IF RowOfPair(cc, r.contact, container_number) # None
             THEN PersistLoop([r EXCEPT !.containers = Append(@, container_number),
                                        !.idx = @ + 1], cc)
           ELSE LET phone_number == get_phone_from_contact(r.contact, cc)
                IN  IF Contains(r.contact, LidSuffix)
                      THEN Cfg([r EXCEPT !.pc = "lid2",
                                         !.phone_number = phone_number,
                                         !.node_id = node.id,
                                         !.res_log[Len(r.res_log)].lid_calls = @ + 1], cc)
                      ELSE PersistLoop(AddMapping(r, phone_number, node.id), cc)

\* lines 186-205: match the routing table, else the default rule; then the loop
MatchAndPersist(r, cc) ==
  LET matched == MatchContainers(json_mapping, r.phone_number, << >>)
      r2 == [r EXCEPT !.res_log[Len(r.res_log)].matched = matched,
                      !.res_log[Len(r.res_log)].fallback = (Len(matched) = 0),
                      !.res_log[Len(r.res_log)].match_phone = r.phone_number,
                      !.idx = 1, !.containers = << >>, !.pending = << >>]
  IN  IF Len(matched) > 0
        THEN PersistLoop([r2 EXCEPT !.container_numbers = matched], cc)
      ELSE IF DefaultRaises(r.contact)
        THEN Raise(r2, cc, "ValueError")
      ELSE PersistLoop([r2 EXCEPT !.container_numbers = <<DefaultContainer(r.contact)>>], cc)

\* lines 157-184: the contact has no usable persisted assignment
ComputeContainers(r, cc) ==
  IF r.contact = NoneStr THEN Raise(r, cc, "TypeError")
  ELSE LET phone_number == get_phone_from_contact(r.contact, cc)
           stored_contact == First(RowsOfContact(cc, r.contact))
           r2 == [r EXCEPT !.phone_number = phone_number]
       IN  IF ~Contains(r.contact, LidSuffix) THEN MatchAndPersist(r2, cc)
           ELSE IF stored_contact # None /\ Len(stored_contact.phone_number) > 0
             THEN MatchAndPersist([r2 EXCEPT !.phone_number = stored_contact.phone_number], cc)
           ELSE IF First(waha_nodes) # None
             THEN Cfg([r2 EXCEPT !.pc = "lid1",
                                 !.node_id = First(waha_nodes).id,
                                 !.res_log[Len(r.res_log)].lid_calls = @ + 1], cc)
           ELSE MatchAndPersist(r2, cc)

\* lines 141-155: the containers of the persisted rows whose node exists
RECURSIVE MappedContainers(_)
MappedContainers(contact_mappings) ==
  IF Len(contact_mappings) = 0 THEN << >>
  ELSE LET mapping == Head(contact_mappings)
       IN  IF NodeById(mapping.node_id) # None
             THEN <<mapping.container_number>> \o MappedContainers(Tail(contact_mappings))
             ELSE MappedContainers(Tail(contact_mappings))

\* get_container_for_contact(contact_id, db) called from `caller`, run up to
\* its first await or to its return
get_container_for_contact(r0, cc, caller) ==
  LET r == [r0 EXCEPT !.caller = caller,
                      !.res_log = Append(@, NewResolution(r0, cc, caller)),
                      !.container_numbers = << >>, !.idx = 0,
                      !.containers = << >>, !.pending = << >>,
                      !.phone_number = NoneStr]
      containers == MappedContainers(RowsOfContact(cc, r.contact))
  IN  IF Len(containers) > 0
        THEN Return(r, cc, containers[1])
        ELSE ComputeContainers(r, cc)

\* line 181 resumes: the answer of the first lookup
AfterLid1(r, cc, resp) ==
  LET resolved_phone == resolve_lid_to_phone_via_waha(r.contact, resp)
      r2 == [r EXCEPT !.res_log[Len(r.res_log)].lid_ok = Append(@, LidResolved(resp)),
                      !.phone_number = IF Len(resolved_phone) > 0 /\ resolved_phone # @
                                         THEN resolved_phone ELSE @]
  IN  MatchAndPersist(r2, cc)

\* line 239 resumes: the answer of the lookup made while storing a row
AfterLid2(r, cc, resp) ==
  LET resolved_phone == resolve_lid_to_phone_via_waha(r.contact, resp)
      phone_number == IF Len(resolved_phone) > 0 /\ resolved_phone # r.phone_number
                        THEN resolved_phone ELSE r.phone_number
      r2 == [r EXCEPT !.res_log[Len(r.res_log)].lid_ok = Append(@, LidResolved(resp))]
  IN  PersistLoop(AddMapping(r2, phone_number, r.node_id), cc)

\* ------------------------------------------------- the callers' code paths
\* the handler ends with `response`
Finish(r, response) == [r EXCEPT !.pc = "done", !.response = response]

\* a sendText call to the node of `container_number` is issued (lines 278-284
\* in send_msg, lines 383-389 in the webhook) and awaited at position pc
IssueSendText(r, container_number, pc) ==
  [r EXCEPT !.pc = pc,
            !.sends = Append(@, [container |-> container_number, outcome |-> "inflight"])]

\* the awaited sendText call is answered
SendTextOutcome(r, ok) ==
  [r EXCEPT !.sends[Len(r.sends)].outcome = IF ok THEN "ok" ELSE "failed"]

\* lines 372-392: the echo loop over the remaining contact_mappings, up to the
\* next sendText await or to the end of the loop
RECURSIVE EchoLoop(_)
EchoLoop(r) ==
  IF Len(r.echo_list) = 0 THEN Finish(r, "ack")
  ELSE LET mapping == Head(r.echo_list)
       IN  IF NodeById(mapping.node_id) = None
             THEN EchoLoop([r EXCEPT !.echo_list = Tail(@)])
             ELSE IssueSendText(r, mapping.container_number, "echo")

\* what the caller of get_container_for_contact does once the call returned
\* (pc = "ret") or raised (pc = "raise"); a call suspended at an await is left
\* as it is
RECURSIVE AfterResolution(_)
AfterResolution(cfg) ==
  LET r == cfg.r
      cc == cfg.cc
  IN  IF r.pc \notin {"ret", "raise"} THEN cfg
      ELSE IF r.caller = "send_message_route"
        \* lines 293-305
        THEN IF r.pc = "raise" THEN Cfg(Finish(r, "error"), cc)
             ELSE AfterResolution(
                    get_container_for_contact([r EXCEPT !.route_container = r.retval],
                                              cc, "send_msg"))
      ELSE IF r.caller = "send_msg"
        \* lines 274-284, and the except of line 303
        THEN IF r.pc = "raise" THEN Cfg(Finish(r, "error"), cc)
             ELSE Cfg(IssueSendText(r, r.retval, "sendText"), cc)
      \* the webhook, lines 363-372, and the except of line 393
      ELSE IF r.pc = "raise" THEN Cfg(Finish(r, "ack"), cc)
           ELSE Cfg(EchoLoop([r EXCEPT !.echo_list = RowsOfContact(cc, r.contact)]), cc)

\* lines 351-365: the echo, after the read receipt
EchoStage(r, cc) ==
  IF r.text = ""
    THEN Cfg(Finish(r, "ack"), cc)
    ELSE LET contact_mappings == RowsOfContact(cc, r.contact)
         IN  IF Len(contact_mappings) = 0
               THEN AfterResolution(get_container_for_contact(r, cc, "webhook"))
               ELSE Cfg(EchoLoop([r EXCEPT !.echo_list = contact_mappings]), cc)

\* -------------------------------------------------------------------- Init
\* pick_node has not been called
NotPicked == [called |-> FALSE, node |-> None]

Init ==
  /\ waha_nodes = InitNodes
  /\ wa_sessions = << >>
  /\ contact_containers = << >>
  /\ json_mapping \in MappingChoices
  /\ req = EmptyBag
  /\ served = 0
  /\ remote_sessions = {}
  /\ picked = NotPicked

\* the requests being handled
Handled == BagToSet(req)

\* no handler holds a response that is not returned yet
Quiet == \A q \in Handled : q.pc # "done"

\* a request is accepted when a handler is free
Accept ==
  /\ Quiet
  /\ BagCardinality(req) < NumWorkers
  /\ served < MaxRequests

\* the handler of request p (IdleReq: a free handler) goes on with locals r
Settle(p, r) ==
  req' = (IF p = IdleReq THEN req ELSE req (-) SetToBag({p})) (+) SetToBag({r})

\* the handler of request p moves to configuration cfg
Move(p, cfg) ==
  /\ Settle(p, cfg.r)
  /\ contact_containers' = cfg.cc

\* ----------------------------------------------------------------- actions
\* POST /send (send_message_route), up to its first await
SendMessage(recipient_chat_id) ==
  /\ Accept
  /\ served' = served + 1
  /\ LET r == [IdleReq EXCEPT !.op = "send", !.contact = recipient_chat_id,
                              !.session = "default"]
     IN  Move(IdleReq, AfterResolution(
                   get_container_for_contact(r, contact_containers, "send_message_route")))
  /\ UNCHANGED <<waha_nodes, wa_sessions, json_mapping, remote_sessions, picked>>

\* the lookup awaited at line 181 is answered
LidLookupBeforeMatch(p, resp) ==
  /\ Quiet
  /\ p \in Handled /\ p.pc = "lid1"
  /\ Move(p, AfterResolution(AfterLid1([p EXCEPT !.seen = "None"],
                                       contact_containers, resp)))
  /\ UNCHANGED <<waha_nodes, wa_sessions, json_mapping, served, remote_sessions, picked>>

\* the lookup awaited at line 239 is answered
LidLookupOnStore(p, resp) ==
  /\ Quiet
  /\ p \in Handled /\ p.pc = "lid2"
  /\ Move(p, AfterResolution(AfterLid2([p EXCEPT !.seen = "None"],
                                       contact_containers, resp)))
  /\ UNCHANGED <<waha_nodes, wa_sessions, json_mapping, served, remote_sessions, picked>>

\* the sendText call of send_msg is answered (ok) or fails: a timeout or the
\* raise_for_status of line 285
SendTextDone(p, ok) ==
  /\ Quiet
  /\ p \in Handled /\ p.pc = "sendText"
  /\ Settle(p, Finish(SendTextOutcome(p, ok), IF ok THEN "success" ELSE "error"))
  /\ UNCHANGED <<waha_nodes, wa_sessions, contact_containers, json_mapping, served, remote_sessions, picked>>

\* the fields of an inbound callback: event, payload.from, payload.body
\* ("missing" is an absent key, "None" a JSON null) and session
WebhookEvents == {"message", "session.status", "message.ack", "other"}
WebhookBodies == {"hi", "", "None", "missing"}
\* the callbacks carry no session field, or the default one (line 313)
WebhookSessions == {"default"}

\* POST /webhook/waha (webhook), up to its first await
Webhook(event, from, body, session) ==
  /\ Accept
  /\ event # "message" => (from = NoneStr /\ body = "missing")
  /\ served' = served + 1
  /\ LET r == [IdleReq EXCEPT !.op = "webhook", !.event = event, !.contact = from,
                              !.session = session,
                              !.text = IF body = "missing" THEN "" ELSE body]
         sess == SessionByPhone(session)
         node == IF sess # None THEN NodeById(sess.node_id) ELSE LeastLoadedNode
     IN  IF event # "message"
           \* lines 396-407
           THEN Move(IdleReq, Cfg(Finish(r, "ack"), contact_containers))
         ELSE IF r.text = "None"
           \* line 324: text[:30] of None raises TypeError outside every try
           THEN Move(IdleReq, Cfg(Finish([r EXCEPT !.err = "TypeError"], "http500"),
                            contact_containers))
         ELSE IF node # None
           \* lines 330-346
           THEN Move(IdleReq, Cfg([r EXCEPT !.pc = "seen", !.seen_calls = @ + 1],
                            contact_containers))
         ELSE Move(IdleReq, EchoStage(r, contact_containers))
  /\ UNCHANGED <<waha_nodes, wa_sessions, json_mapping, remote_sessions, picked>>

\* a failed sendSeen call ends the handling of the message
SeenDone_Propagates(p, ok) ==
  /\ Quiet
  /\ p \in Handled /\ p.pc = "seen"
  /\ IF ok
       THEN Move(p, EchoStage([p EXCEPT !.seen = "ok"], contact_containers))
       ELSE Move(p, Cfg(Finish([p EXCEPT !.seen = "failed"], "ack"), contact_containers))
  /\ UNCHANGED <<waha_nodes, wa_sessions, json_mapping, served, remote_sessions, picked>>

\* the sendSeen call is answered or fails (lines 347-349); the echo follows
SeenDone(p, ok) ==
  /\ Quiet
  /\ p \in Handled /\ p.pc = "seen"
  /\ Move(p, EchoStage([p EXCEPT !.seen = IF ok THEN "ok" ELSE "failed"],
                        contact_containers))
  /\ UNCHANGED <<waha_nodes, wa_sessions, json_mapping, served, remote_sessions, picked>>

\* the sendText call of the echo loop is answered, or fails: a timeout or the
\* raise_for_status of line 390, caught at line 393
EchoDone(p, ok) ==
  /\ Quiet
  /\ p \in Handled /\ p.pc = "echo"
  /\ LET r == SendTextOutcome([p EXCEPT !.seen = "None"], ok)
     IN  Settle(p, IF ok THEN EchoLoop([r EXCEPT !.echo_list = Tail(@)])
                         ELSE Finish(r, "ack"))
  /\ UNCHANGED <<waha_nodes, wa_sessions, contact_containers, json_mapping, served, remote_sessions, picked>>

\* the existence check left out
SessionExists_Never(phone) == FALSE

\* lines 33-37: a session of that name exists
SessionExists(phone) == SessionByPhone(phone) # None

\* the round robin stuck on the first container
RoundRobinContainer_Stuck(total_sessions) == 1

\* line 41: container_number = (total_sessions % 2) + 1
RoundRobinContainer(total_sessions) == (total_sessions % 2) + 1

\* POST /session/create (create_session), up to its await
CreateSession(phone) ==
  /\ Accept
  /\ served' = served + 1
  /\ LET r == [IdleReq EXCEPT !.op = "create", !.session = phone,
                              !.existed = (SessionByPhone(phone) # None),
                              !.total_at_start = Len(wa_sessions)]
         total_sessions == Len(wa_sessions)
         container_number == RoundRobinContainer(total_sessions)
         node == NodeForContainer(container_number)
     IN  Settle(IdleReq, IF SessionExists(phone) THEN Finish(r, "exists")
                   ELSE IF node = None THEN Finish(r, "container_not_found")
                   ELSE [r EXCEPT !.pc = "create", !.node_id = node.id,
                                  !.route_container = container_number,
                                  !.create_calls = @ + 1])
  /\ UNCHANGED <<waha_nodes, wa_sessions, contact_containers, json_mapping, remote_sessions, picked>>

\* the row of the session is written whatever the remote call answered
CreateSessionDone_DanglingRow(p, ok) ==
  /\ Quiet
  /\ p \in Handled /\ p.pc = "create"
  /\ wa_sessions' = Append(wa_sessions, WaSession(p.session, p.node_id))
  /\ remote_sessions' = IF ok THEN remote_sessions \cup {p.session} ELSE remote_sessions
  /\ Settle(p, Finish([p EXCEPT !.remote = IF ok THEN "created" ELSE "failed",
                                !.sessions_before = wa_sessions,
                                !.active_before = NodeById(p.node_id).active_sessions,
                                !.sessions_added = @ + 1],
                      IF ok THEN "success" ELSE "error"))
  /\ UNCHANGED <<waha_nodes, contact_containers, json_mapping, served, picked>>

\* the POST /api/sessions call is answered (lines 69-75) or fails (lines 65-67)
CreateSessionDone(p, ok) ==
  /\ Quiet
  /\ p \in Handled /\ p.pc = "create"
  /\ LET r == [p EXCEPT !.remote = IF ok THEN "created" ELSE "failed",
                        !.sessions_before = wa_sessions,
                        !.active_before = NodeById(p.node_id).active_sessions]
     IN  IF ok
           THEN /\ wa_sessions' = Append(wa_sessions, WaSession(p.session, p.node_id))
                /\ remote_sessions' = remote_sessions \cup {p.session}
                /\ Settle(p, Finish([r EXCEPT !.sessions_added = @ + 1], "success"))
           ELSE /\ wa_sessions' = wa_sessions
                /\ remote_sessions' = remote_sessions
                /\ Settle(p, Finish(r, "error"))
  /\ UNCHANGED <<waha_nodes, contact_containers, json_mapping, served, picked>>

\* the response is returned to the caller and the handler is free
Respond(p) ==
  /\ p \in Handled /\ p.pc = "done"
  /\ req' = req (-) SetToBag({p})
  /\ UNCHANGED <<waha_nodes, wa_sessions, contact_containers, json_mapping, served, remote_sessions, picked>>

Next ==
  \/ \E c \in Contacts : SendMessage(c)
  \/ \E p \in Handled, resp \in LidResponses : LidLookupBeforeMatch(p, resp)
  \/ \E p \in Handled, resp \in LidResponses : LidLookupOnStore(p, resp)
  \/ \E p \in Handled, ok \in BOOLEAN : SendTextDone(p, ok)
  \/ \E e \in WebhookEvents, c \in Contacts \cup {NoneStr}, b \in WebhookBodies,
        s \in WebhookSessions : Webhook(e, c, b, s)
  \/ \E p \in Handled, ok \in BOOLEAN : SeenDone(p, ok)
  \/ \E p \in Handled, ok \in BOOLEAN : EchoDone(p, ok)
  \/ \E s \in SessionLabels : CreateSession(s)
  \/ \E p \in Handled, ok \in BOOLEAN : CreateSessionDone(p, ok)
  \/ \E p \in Handled : Respond(p)

Spec == Init /\ [][Next]_vars

\* ------------------------------------------------- node_allocator.pick_node
\* a WahaNode row
WahaNode(id, active_sessions, max_sessions) ==
  [id |-> id, url |-> UrlPrefix \o WahaCore \o StrOfInt(id) \o UrlPort,
   max_sessions |-> max_sessions, active_sessions |-> active_sessions]

\* the waha_nodes tables of n rows, ids in registry order
NodeTablesOfLen(n) ==
  {[i \in 1..n |-> WahaNode(i, f[i][1], f[i][2])] :
     f \in [1..n -> (0..MaxLoad) \X (1..MaxLoad)]}

\* pick_node (node_allocator.py lines 4-9): the rows the query may return.
\* filter(active_sessions < max_sessions).order_by(active_sessions).first():
\* ORDER BY names active_sessions only, so among the rows with capacity that
\* share the lowest active_sessions the database is free to return any.
pick_node(nodes) ==
  LET cand == {i \in 1..Len(nodes) : nodes[i].active_sessions < nodes[i].max_sessions}
  IN  IF cand = {} THEN {None}
      ELSE {nodes[i] : i \in {k \in cand :
                               \A j \in cand :
                                 nodes[k].active_sessions <= nodes[j].active_sessions}}

\* a waha_nodes table, before pick_node is called on it
InitAlloc ==
  /\ \E n \in 0..MaxNodes : waha_nodes \in NodeTablesOfLen(n)
  /\ wa_sessions = << >>
  /\ contact_containers = << >>
  /\ json_mapping = << >>
  /\ req = EmptyBag
  /\ served = 0
  /\ remote_sessions = {}
  /\ picked = NotPicked

\* pick_node(db) is called and returns
PickNode ==
  /\ ~picked.called
  /\ \E node \in pick_node(waha_nodes) : picked' = [called |-> TRUE, node |-> node]
  /\ UNCHANGED <<waha_nodes, wa_sessions, contact_containers, json_mapping, req, served,
                 remote_sessions>>

NextAlloc == PickNode

SpecAlloc == InitAlloc /\ [][NextAlloc]_vars

\* ================================================================== claims
\* the calls of get_container_for_contact a request has made so far
Calls(p) == {p.res_log[k] : k \in 1..Len(p.res_log)}

\* the call has ended: it returned a container or raised
Ended(e) == e.result # 0 \/ e.err # "None"

IsLid(contact_id) == Contains(contact_id, LidSuffix)

\* ------------------------------------------------------------------ C1
\* C1: in every reachable state the contact_containers table holds no two rows
\* with the same (contact_id, container_number), also when two resolutions of
\* one contact both passed the existence check before either committed.
C1_UniquePairs ==
  \A i, j \in 1..Len(contact_containers) :
    i < j => ~ /\ contact_containers[i].contact_id = contact_containers[j].contact_id
               /\ contact_containers[i].container_number
                    = contact_containers[j].container_number

\* a resolution lost the duplicate-insert race: its commit was refused, and the
\* row of the winner is in the table
C1_Witness ==
  \E p \in Handled : \E e \in Calls(p) :
    /\ e.err = "IntegrityError"
    /\ e.start = {}
    /\ StoredContainers(contact_containers, p.contact) # {}

\* ------------------------------------------------------------------ C2
\* C2: a call of get_container_for_contact for a contact that has a persisted
\* row when the call starts returns one of the persisted containers, leaves the
\* contact's container set as it was, commits no row and issues no
\* resolveLinkedId call.
C2_ReResolveIdempotent ==
  \A p \in Handled : \A e \in Calls(p) :
    e.start # {} =>
      /\ e.err = "None"
      /\ e.result \in e.start
      /\ e.end = e.start
      /\ e.written = << >>
      /\ e.lid_calls = 0

\* a linked-id contact, persisted by an earlier call, was resolved again
C2_Witness ==
  \E p \in Handled : \E e \in Calls(p) :
    IsLid(p.contact) /\ e.start # {} /\ e.result # 0

\* ------------------------------------------------------------------ C3
\* C3: a resolution that found no row for the contact when it started and
\* ends when another request has stored the contact's rows meanwhile (the
\* duplicate-insert race) ends without error, with one of the contact's
\* containers.
C3_RaceTolerated ==
  \A p \in Handled : \A e \in Calls(p) :
    (e.start = {} /\ Ended(e) /\ StoredContainers(contact_containers, p.contact) # {})
      => /\ e.err = "None"
         /\ e.result \in StoredContainers(contact_containers, p.contact)

\* ------------------------------------------------------------------ C4
\* C4: a successful SendMessage has issued one sendText call per container the
\* contact is assigned to.
C4_SendFansOut ==
  \A p \in Handled :
    (p.op = "send" /\ p.pc = "done" /\ p.response = "success")
      => /\ \A c \in StoredContainers(contact_containers, p.contact) :
              \E i \in 1..Len(p.sends) : p.sends[i].container = c
         /\ Len(p.sends) = Cardinality(StoredContainers(contact_containers, p.contact))

\* ------------------------------------------------------------------ C5
\* C5 (for the webhook echo, lines 351-394): when a sendText call of the echo
\* failed, a sendText call was still issued to the node of every container the
\* contact is assigned to.
C5_EchoFailureIsolated ==
  \A p \in Handled :
    (/\ p.op = "webhook" /\ p.pc = "done"
     /\ \E i \in 1..Len(p.sends) : p.sends[i].outcome = "failed")
      => \A c \in StoredContainers(contact_containers, p.contact) :
           \E i \in 1..Len(p.sends) : p.sends[i].container = c

\* ------------------------------------------------------------------ C6
\* the rule of the claim: container 2 when the local part ends in 5-9,
\* container 1 when it ends in 0-4 or in no digit
C6_Rule(contact_id) ==
  LET local == SplitAt0(contact_id)
  IN  IF Len(local) > 0 /\ local[Len(local)] \in {"5", "6", "7", "8", "9"} THEN 2 ELSE 1

\* C6: a resolution of a contact without persisted row and without match in
\* the routing table ends with exactly the container of the rule.
C6_DefaultRule ==
  \A p \in Handled : \A e \in Calls(p) :
    (e.start = {} /\ e.fallback /\ Ended(e))
      => e.err = "None" /\ e.result = C6_Rule(p.contact)

\* ------------------------------------------------------------------ C7
\* the case of the claim: LidExample without prior record, every lookup of the
\* pass answered with the resolved phone, which the routing table does not list
C7_Case(p, e) ==
  /\ p.contact = LidExample
  /\ e.start = {}
  /\ e.fallback
  /\ Len(e.lid_ok) > 0
  /\ \A i \in 1..Len(e.lid_ok) : e.lid_ok[i]

\* C7 as claimed: the pass resolves to container 2 (last digit 8 of the
\* resolved phone) and persists a row with the resolved phone.
C7_AsClaimed ==
  \A p \in Handled : \A e \in Calls(p) :
    (C7_Case(p, e) /\ e.result # 0)
      => /\ e.result = 2
         /\ \A i \in 1..Len(e.written) :
              e.written[i].phone_number = PhoneResolved /\ e.written[i].container_number = 2

\* C7 amended: the default rule takes the last digit of the identifier's own
\* local part (4): the pass resolves to container 1, and every row it commits
\* is (LidExample, resolved phone, container 1, node 1); a pass that made both
\* lookups and returned has committed that row.
C7_Amended ==
  \A p \in Handled : \A e \in Calls(p) :
    C7_Case(p, e)
      => /\ e.result \in {0, 1}
         /\ \A i \in 1..Len(e.written) :
              e.written[i] = ContactContainer(LidExample, PhoneResolved, 1, 1)
         /\ (e.result = 1 /\ e.lid_calls = 2) => Len(e.written) = 1

\* such a pass returned container 1 and committed its row
C7_Witness ==
  \E p \in Handled : \E e \in Calls(p) :
    /\ C7_Case(p, e)
    /\ e.result = 1
    /\ e.written = <<ContactContainer(LidExample, PhoneResolved, 1, 1)>>

\* ------------------------------------------------------------------ C8
\* C8: a resolution of a linked-id contact that starts when a row with a phone
\* number is stored for it issues no resolveLinkedId call.
C8_NoSecondLookup ==
  \A p \in Handled : \A e \in Calls(p) :
    (IsLid(p.contact) /\ e.start_phone) => (e.lid_calls = 0 /\ e.lid_ok = << >>)

\* a later request resolved the linked id whose resolved phone is stored
C8_Witness ==
  \E p \in Handled : \E e \in Calls(p) :
    /\ IsLid(p.contact) /\ e.start_phone /\ e.result # 0
    /\ e.caller = "send_message_route"
    /\ \E i \in 1..Len(contact_containers) :
         /\ contact_containers[i].contact_id = p.contact
         /\ contact_containers[i].phone_number = PhoneResolved

\* ------------------------------------------------------------------ C9
\* C9: every webhook request is answered with the acknowledgment.
C9_AlwaysAck ==
  \A p \in Handled : (p.op = "webhook" /\ p.pc = "done") => p.response = "ack"

\* ------------------------------------------------------------------ C10
\* C10: a CreateSession for a name that has a session row when the request
\* arrives answers "already exists", makes no createSession call, adds no
\* session row, and leaves the nodes as init_nodes wrote them.
C10_ExistingRejected ==
  \A p \in Handled :
    (p.op = "create" /\ p.existed)
      => /\ p.pc = "done" /\ p.response = "exists"
         /\ p.create_calls = 0
         /\ p.sessions_added = 0
         /\ waha_nodes = InitNodes

\* a second CreateSession for a stored name was answered
C10_Witness ==
  \E p \in Handled :
    /\ p.op = "create" /\ p.existed /\ p.pc = "done"
    /\ \E i \in 1..Len(wa_sessions) : wa_sessions[i].phone = p.session

\* C11: in every reachable state, also after two create_session requests for
\* the same name that both passed the existence check before either wrote its
\* row, wa_sessions holds at most one row per session name.
C11_OneSessionPerName ==
  \A i, j \in 1..Len(wa_sessions) :
    i < j => wa_sessions[i].phone # wa_sessions[j].phone

\* C12: when a create_session request has succeeded, the active_sessions count
\* of the node it chose is one more than it was when the remote call was
\* answered, and exactly one wa_sessions row, bound to that node, was added.
C12_SuccessCountsSession ==
  \A p \in Handled :
    (p.op = "create" /\ p.pc = "done" /\ p.response = "success") =>
      /\ NodeById(p.node_id).active_sessions = p.active_before + 1
      /\ wa_sessions = Append(p.sessions_before, WaSession(p.session, p.node_id))

\* C13: when the POST /api/sessions call of a create_session request failed,
\* the request answers with an error, wa_sessions is as it was when the call
\* was answered and no node's active_sessions count has changed; a request
\* answers success only when its remote call created the session, and every
\* wa_sessions row is of a session name whose remote creation succeeded.
C13_FailureLeavesNoRow ==
  \A p \in Handled :
    (p.op = "create" /\ p.pc = "done") =>
      /\ p.remote = "failed" =>
           /\ p.response = "error"
           /\ wa_sessions = p.sessions_before
           /\ waha_nodes = InitNodes
      /\ p.response = "success" => p.remote = "created"
      /\ \A i \in 1..Len(wa_sessions) : wa_sessions[i].phone \in remote_sessions

\* a create_session request whose remote call failed answers while another
\* session, whose remote creation succeeded, is stored
C13_Witness ==
  \E p \in Handled :
    /\ p.op = "create" /\ p.pc = "done" /\ p.remote = "failed"
    /\ p.response = "error"
    /\ Len(wa_sessions) = 1 /\ wa_sessions[1].phone # p.session

\* the least element of a non-empty set of container numbers
LowestOf(S) == CHOOSE c \in S : \A d \in S : c <= d

\* C14: the container a call of get_container_for_contact returns is the lowest
\* of the containers persisted for the contact when it returns, on the first
\* resolution (whatever the order of the routing table's entries) and on a
\* re-resolution from the persisted rows.
C14_LowestContainerReturned ==
  \A p \in Handled : \A e \in Calls(p) :
    (e.result # 0 /\ e.end # {}) => e.result = LowestOf(e.end)

\* the containers whose routing-table list holds the phone number, the table
\* read entry by entry
ListedContainers(phone_number) ==
  {IntOfStr(json_mapping[i].key) :
     i \in {j \in 1..Len(json_mapping) : phone_number \in json_mapping[j].phones}}

\* the containers of a set of container numbers that have a node
WithNode(S) == {c \in S : \E i \in 1..Len(waha_nodes) :
                            Contains(waha_nodes[i].url, WahaCore \o StrOfInt(c))}

\* the container numbers of a sequence of rows
ContainersOf(rows) == {rows[i].container_number : i \in 1..Len(rows)}

\* C15: when a call of get_container_for_contact for a contact without
\* persisted rows has matched a phone number that several containers list and
\* has returned, the rows persisted for the contact are then those of exactly
\* the listed containers that have a node; the rows this call wrote went in
\* with its one commit, one per container, and are of listed containers only;
\* and when no other request wrote rows of the contact meanwhile, this call's
\* commit wrote the rows of all of them.
C15_Case(e) ==
  /\ e.start = {} /\ e.result # 0
  /\ e.match_phone # NoneStr
  /\ Cardinality(ListedContainers(e.match_phone)) > 1

C15_AllMatchesStored ==
  \A p \in Handled : \A e \in Calls(p) :
    C15_Case(e) =>
      LET expected == WithNode(ListedContainers(e.match_phone))
      IN  /\ e.end = expected
          /\ ContainersOf(e.written) \subseteq expected
          /\ Cardinality(ContainersOf(e.written)) = Len(e.written)
          /\ \A i \in 1..Len(e.written) :
               \E k \in 1..Len(contact_containers) : contact_containers[k] = e.written[i]
          /\ (\A k \in 1..Len(contact_containers) :
                contact_containers[k].contact_id = p.contact =>
                  \E i \in 1..Len(e.written) : e.written[i] = contact_containers[k])
               => ContainersOf(e.written) = expected

\* a first resolution has matched two containers and stored a row for each
C15_Witness ==
  \E p \in Handled : \E e \in Calls(p) :
    /\ C15_Case(e)
    /\ Len(e.written) = 2
    /\ StoredContainers(contact_containers, p.contact) = {1, 2}

\* C16: while the nodes of containers 1 and 2 are both registered, no call of
\* get_container_for_contact ends with the "No valid containers" failure,
\* whatever the contact and the routing table.
C16_RouteWhenNodesRegistered ==
  (NodeForContainer(1) # None /\ NodeForContainer(2) # None) =>
    \A p \in Handled : \A e \in Calls(p) : e.err # "NoValidContainers"

\* C17: a call of get_container_for_contact for a @lid contact without
\* persisted rows issues at most one resolveLinkedId call, however many
\* containers the contact matches.
C17_OneLidLookup ==
  \A p \in Handled : \A e \in Calls(p) :
    (IsLid(p.contact) /\ e.start = {}) => e.lid_calls <= 1

\* a call for a @lid contact without persisted rows has ended, and every
\* resolveLinkedId call it issued came back without a phone number
C18_Case(p, e) ==
  /\ IsLid(p.contact) /\ e.start = {}
  /\ Ended(e)
  /\ Len(e.lid_ok) > 0
  /\ \A k \in 1..Len(e.lid_ok) : ~e.lid_ok[k]

\* C18: when the resolveLinkedId lookups of a call of get_container_for_contact
\* for a @lid contact fail or return no mapping, the call does not raise: it
\* looks the part of the identifier before "@" up in the routing table,
\* returns a container, and a row of the contact is persisted for that
\* container.
C18_LookupFailureTolerated ==
  \A p \in Handled : \A e \in Calls(p) :
    C18_Case(p, e) =>
      /\ e.err = "None"
      /\ e.match_phone = SplitAt0(p.contact)
      /\ e.result # 0
      /\ e.result \in StoredContainers(contact_containers, p.contact)

\* C19: in every step, whatever the operation and the interleaving, every row
\* of contact_containers stays in place with its contact_id, phone_number,
\* container_number and node_id: rows are never deleted or changed, the table
\* only grows.
C19_RowsOnlyGrow ==
  [][ /\ Len(contact_containers') >= Len(contact_containers)
      /\ \A i \in 1..Len(contact_containers) :
           contact_containers'[i] = contact_containers[i] ]_vars

\* a call has committed rows into a table that already held rows of an
\* earlier commit
C19_Witness ==
  \E p \in Handled : \E e \in Calls(p) :
    /\ Len(e.written) > 0
    /\ Len(contact_containers) > Len(e.written)
    /\ \A i \in 1..Len(e.written) :
         contact_containers[Len(contact_containers) - Len(e.written) + i] = e.written[i]

\* a create_session request for a new name that found the node of its container
C20_Case(p) ==
  /\ p.op = "create" /\ ~p.existed
  /\ p.pc \in {"create", "done"}
  /\ p.response # "container_not_found"

C21_Case(p) ==
  /\ p.op = "webhook" /\ p.event = "message"
  /\ p.seen = "failed"

\* C21: a failure or timeout of the sendSeen call of a message event is not
\* propagated: when the handler has run on from the failed call to its next
\* await or to its end, a request that has ended is answered with the
\* acknowledgement, and when the body is not empty the handler has gone on to
\* the contact's containers, from the persisted rows or by a call of
\* get_container_for_contact, and has issued the echo if the containers are
\* there (rows found, or the call returned).
C21_SeenFailureSwallowed ==
  \A p \in Handled :
    C21_Case(p) =>
      /\ p.pc = "done" => p.response = "ack"
      /\ p.text # "" =>
           /\ Len(p.res_log) > 0 \/ Len(p.sends) > 0
           /\ (Len(p.res_log) = 0 \/ p.res_log[Len(p.res_log)].result # 0)
                => Len(p.sends) > 0

\* after a failed sendSeen call the sender of a message was resolved for the
\* first time and the echo was sent from its container
C21_Witness ==
  \E p \in Handled :
    /\ C21_Case(p) /\ p.text = "hi"
    /\ Len(p.res_log) = 1 /\ p.res_log[1].result # 0
    /\ Len(p.sends) > 0
    /\ p.sends[1].container \in StoredContainers(contact_containers, p.contact)

\* the rows of waha_nodes with active_sessions < max_sessions
WithCapacity == {i \in 1..Len(waha_nodes) :
                   waha_nodes[i].active_sessions < waha_nodes[i].max_sessions}

\* C22: pick_node returns no node when every node is at or over capacity, and
\* otherwise a node with capacity whose active_sessions is the lowest among
\* the nodes with capacity and which is the first such node of the registry.
C22_PickNodeAsClaimed ==
  picked.called =>
    IF WithCapacity = {} THEN picked.node = None
    ELSE \E i \in WithCapacity :
           /\ picked.node = waha_nodes[i]
           /\ \A j \in WithCapacity :
                \/ waha_nodes[i].active_sessions < waha_nodes[j].active_sessions
                \/ /\ waha_nodes[i].active_sessions = waha_nodes[j].active_sessions
                   /\ i <= j

\* C23: in every reachable state all contact_containers rows of one contact_id
\* carry the same phone_number, whatever the lookups answered while the rows
\* were written and however the requests interleave.
C23_OnePhonePerContact ==
  \A i, j \in 1..Len(contact_containers) :
    contact_containers[i].contact_id = contact_containers[j].contact_id
      => contact_containers[i].phone_number = contact_containers[j].phone_number

====
